---- MODULE Spec2Model ----
(***************************************************************************)
(* Model of components/encryption/src/crypter.rs: the encryption-method    *)
(* registry (prost-codec build), the Iv and AesGcmTag byte containers and  *)
(* the AES-256-GCM crypter built on openssl::symm.                         *)
(*                                                                         *)
(* A Rust call has one of three outcomes, kept apart in every result:      *)
(*   kind = "ok"    the call returned a value (Ok(v) for a Result),        *)
(*   kind = "err"   the call returned Err(e) to its caller,                *)
(*   kind = "panic" the call unwound (assert!, panic!, copy_from_slice).   *)
(***************************************************************************)
EXTENDS Integers, Sequences, FiniteSets, TLC

\* ---------------------------------------------------------------- bounds
MaxCode == 6        \* wire codes tried: -MaxCode .. MaxCode, and the i32 extremes
MaxExtra == 1       \* parsed slices are up to GCM_TAG_LEN + MaxExtra bytes long
MaxSeed == 1        \* byte patterns (slices, keys, nonces) start at 0 .. MaxSeed
MaxStep == 1        \* byte patterns advance by 0 .. MaxStep per position
MaxPtLen == 1       \* plaintexts are 0 .. MaxPtLen bytes long
NumThreads == 2     \* concurrent callers of the crypters

\* ------------------------------------------------------------- outcomes
Ok(v) == [kind |-> "ok", value |-> v]
Err(e) == [kind |-> "err", error |-> e]
Panic(m) == [kind |-> "panic", msg |-> m]

\* ------------------------------------------------------- byte sequences
Pattern(n, seed, step) == [i \in 1..n |-> (seed + step * i) % 256]
Zeros(n) == [i \in 1..n |-> 0]

RECURSIVE SumTo(_, _)
SumTo(s, n) == IF n = 0 THEN 0 ELSE s[n] + SumTo(s, n - 1)

SumSeq(s) == SumTo(s, Len(s))

RECURSIVE WSumTo(_, _)
WSumTo(s, n) == IF n = 0 THEN 0 ELSE n * s[n] + WSumTo(s, n - 1)

WSum(s) == WSumTo(s, Len(s))

RECURSIVE XorBits(_, _, _)
XorBits(a, b, n) ==
    IF n = 0 THEN 0
    ELSE (((a % 2) + (b % 2)) % 2) + 2 * XorBits(a \div 2, b \div 2, n - 1)

XorByte(a, b) == XorBits(a, b, 8)

\* -------------------------------------------------------- method registry
Methods == {"Unknown", "Plaintext", "Aes128Ctr", "Aes192Ctr", "Aes256Ctr"}

I32Min == -2147483647 - 1
I32Max == 2147483647
Codes == (-MaxCode .. MaxCode) \cup {I32Min, I32Max}

\* faulty variant: the match arms are shifted down by one (0 => Plaintext, ...)
decode_shifted(method) ==
    CASE method = 0 -> "Plaintext"
      [] method = 1 -> "Aes128Ctr"
      [] method = 2 -> "Aes192Ctr"
      [] method = 3 -> "Aes256Ctr"
      [] OTHER -> "Unknown"

encryption_method_to_db_encryption_method(method) ==
    CASE method = 1 -> "Plaintext"
      [] method = 2 -> "Aes128Ctr"
      [] method = 3 -> "Aes192Ctr"
      [] method = 4 -> "Aes256Ctr"
      [] OTHER -> "Unknown"

\* faulty variant: two arms carry the same code
compat_dup(method) ==
    CASE method = "Unknown" -> 0
      [] method = "Plaintext" -> 1
      [] method = "Aes128Ctr" -> 2
      [] method = "Aes192Ctr" -> 2
      [] method = "Aes256Ctr" -> 4

compat(method) ==
    CASE method = "Unknown" -> 0
      [] method = "Plaintext" -> 1
      [] method = "Aes128Ctr" -> 2
      [] method = "Aes192Ctr" -> 3
      [] method = "Aes256Ctr" -> 4

BadMethodMsg(m) == <<"bad EncryptionMethod", m>>

\* faulty variant: Aes192Ctr is given the 128-bit key length
key_length_192_as_128(method) ==
    CASE method = "Plaintext" -> Ok(0)
      [] method = "Aes128Ctr" -> Ok(16)
      [] method = "Aes192Ctr" -> Ok(16)
      [] method = "Aes256Ctr" -> Ok(32)
      [] OTHER -> Panic(BadMethodMsg(method))

\* faulty variant: the catch-all arm returns 0 instead of panicking
key_length_silent(method) ==
    CASE method = "Plaintext" -> Ok(0)
      [] method = "Aes128Ctr" -> Ok(16)
      [] method = "Aes192Ctr" -> Ok(24)
      [] method = "Aes256Ctr" -> Ok(32)
      [] OTHER -> Ok(0)

get_method_key_length(method) ==
    CASE method = "Plaintext" -> Ok(0)
      [] method = "Aes128Ctr" -> Ok(16)
      [] method = "Aes192Ctr" -> Ok(24)
      [] method = "Aes256Ctr" -> Ok(32)
      [] OTHER -> Panic(BadMethodMsg(method))

\* ------------------------------------------------------------ Iv and tag
GCM_IV_12 == 12
GCM_TAG_LEN == 16
KEY_LEN == 32

IvAssertMsg == "Nonce + Counter must be greater than 12 bytes"
TagAssertMsg == "AES GCM tag must be 16 bytes"
CopyLenMsg == "source slice length does not match destination slice length"

\* <[u8]>::copy_from_slice: panics unless both slices have the same length
copy_from_slice(dst, src) ==
    IF Len(src) # Len(dst) THEN Panic(CopyLenMsg) ELSE Ok(src)

\* faulty variant: a short slice is copied into the front of the zeroed array
Iv_from_padding(src) ==
    IF Len(src) < GCM_IV_12
    THEN Ok([iv |-> [i \in 1..GCM_IV_12 |-> IF i <= Len(src) THEN src[i] ELSE 0]])
    ELSE LET copied == copy_from_slice(Zeros(GCM_IV_12), src)
         IN IF copied.kind = "panic" THEN copied ELSE Ok([iv |-> copied.value])

Iv_from(src) ==
    IF ~(Len(src) >= GCM_IV_12) THEN Panic(IvAssertMsg)
    ELSE LET copied == copy_from_slice(Zeros(GCM_IV_12), src)
         IN IF copied.kind = "panic" THEN copied ELSE Ok([iv |-> copied.value])

Iv_as_slice(self) == self.iv

\* OsRng.fill_bytes: any 12 bytes; the model draws them from the patterns
RandomIvBytes == {Pattern(GCM_IV_12, s, k) : s \in 0..MaxSeed, k \in 0..MaxStep}
Iv_new == {[iv |-> b] : b \in RandomIvBytes}

\* faulty variant: the assertion is strict (len > 16)
AesGcmTag_from_strict(src) ==
    IF ~(Len(src) > GCM_TAG_LEN) THEN Panic(TagAssertMsg)
    ELSE LET copied == copy_from_slice(Zeros(GCM_TAG_LEN), src)
         IN IF copied.kind = "panic" THEN copied ELSE Ok(copied.value)

AesGcmTag_from(src) ==
    IF ~(Len(src) >= GCM_TAG_LEN) THEN Panic(TagAssertMsg)
    ELSE LET copied == copy_from_slice(Zeros(GCM_TAG_LEN), src)
         IN IF copied.kind = "panic" THEN copied ELSE Ok(copied.value)

AesGcmTag_as_slice(self) == self

\* ------------------------------------------- the AES-256-GCM primitive
\* openssl::symm is an external library.  It is stood in for by a small
\* AEAD of the same shape: a keystream cipher keyed by (key, iv), and a
\* 16-byte tag over (key, iv, aad, ciphertext) that decryption recomputes
\* and compares before it releases the plaintext.
aes_256_gcm == [key_len |-> KEY_LEN, iv_len |-> GCM_IV_12, tag_len |-> GCM_TAG_LEN]

gcm_mix(key, iv) == SumSeq(key) + 3 * SumSeq(iv)

gcm_stream(mix, data) ==
    [i \in 1..Len(data) |-> XorByte(data[i], (mix + 7 * i) % 256)]

gcm_tag(mix, aad, ct) ==
    LET digest == mix + 5 * WSum(aad) + 13 * Len(aad) + 7 * WSum(ct) + Len(ct)
    IN [j \in 1..GCM_TAG_LEN |-> (digest * j + 11 * j) % 256]

encrypt_aead(t, key, iv, aad, data) ==
    IF Len(key) # t.key_len \/ Len(iv) # t.iv_len THEN Err("cipher")
    ELSE LET mix == gcm_mix(key, iv)
             ct == gcm_stream(mix, data)
         IN Ok([ciphertext |-> ct, tag |-> gcm_tag(mix, aad, ct)])

decrypt_aead(t, key, iv, aad, data, tag) ==
    IF Len(key) # t.key_len \/ Len(iv) # t.iv_len THEN Err("cipher")
    ELSE LET mix == gcm_mix(key, iv)
         IN IF tag # gcm_tag(mix, aad, data) THEN Err("tag mismatch")
            ELSE Ok(gcm_stream(mix, data))

\* ------------------------------------------------------- AesGcmCrypter
AesGcmCrypter_new(key, iv) == [iv |-> iv, key |-> key]

encrypt(self, pt) ==
    LET r == encrypt_aead(aes_256_gcm, self.key, Iv_as_slice(self.iv), <<>>, pt)
    IN IF r.kind = "err" THEN r
       ELSE Ok([ciphertext |-> r.value.ciphertext, tag |-> r.value.tag])

\* faulty variant: decryption runs under a zeroed IV instead of the bound one
decrypt_zero_iv(self, ct, tag) ==
    LET r == decrypt_aead(aes_256_gcm, self.key, Zeros(GCM_IV_12), <<>>, ct, tag)
    IN IF r.kind = "err" THEN r ELSE Ok(r.value)

\* faulty variant: the failure of the tag check is swallowed and the bytes returned
decrypt_unverified(self, ct, tag) ==
    LET r == decrypt_aead(aes_256_gcm, self.key, Iv_as_slice(self.iv), <<>>, ct, tag)
    IN IF r.kind = "err" THEN Ok(gcm_stream(gcm_mix(self.key, Iv_as_slice(self.iv)), ct))
       ELSE Ok(r.value)

decrypt(self, ct, tag) ==
    LET r == decrypt_aead(aes_256_gcm, self.key, Iv_as_slice(self.iv), <<>>, ct, tag)
    IN IF r.kind = "err" THEN r ELSE Ok(r.value)

\* --------------------------------------------------------------- inputs
SrcInputs ==
    {Pattern(n, s, k) : n \in 0..(GCM_TAG_LEN + MaxExtra), s \in 0..MaxSeed, k \in 0..MaxStep}

Threads == 1..NumThreads
\* two crypters, bound to different keys and different nonces
Crypters == {0, 1}
Plaintexts == {Pattern(n, 40 + n, 3) : n \in 0..MaxPtLen}
TagKinds == {"same", "zero", "altered"}

KeyOf(c) == Pattern(KEY_LEN, c, 1)
IvOf(c) == Iv_from(Pattern(GCM_IV_12, c, 2)).value

\* the tag a caller hands to decrypt along with the ciphertext that encrypt
\* produced: the tag encrypt produced, a zeroed tag or an altered tag
TagArg(t, kind) ==
    CASE kind = "same" -> t
      [] kind = "zero" -> Zeros(GCM_TAG_LEN)
      [] kind = "altered" -> [t EXCEPT ![1] = (t[1] + 1) % 256]

ValidIvs == Iv_new \cup {Iv_from(s).value : s \in {x \in SrcInputs : Iv_from(x).kind = "ok"}}

ValidTags ==
    {Zeros(GCM_TAG_LEN)}
    \cup {AesGcmTag_from(s).value : s \in {x \in SrcInputs : AesGcmTag_from(x).kind = "ok"}}
    \cup {encrypt(AesGcmCrypter_new(KeyOf(0), IvOf(0)), pt).value.tag : pt \in Plaintexts}

\* ---------------------------------------------------------------- state
VARIABLES
    crypters,   \* crypter id -> AesGcmCrypter {iv, key}
    pc,         \* thread -> "idle" | "called" | "done"
    req,        \* thread -> the call in progress
    res,        \* thread -> the outcome of the finished call
    last        \* the latest call of a registry / Iv / tag function

vars == <<crypters, pc, req, res, last>>
cvars == <<crypters, pc, req, res>>

NoReq == [op |-> "none", crypter |-> 0, pt |-> <<>>, tag |-> "none"]
NoRes == [kind |-> "none"]
NoCall == [fn |-> "none", arg |-> <<>>, out |-> NoRes]

Init ==
    /\ crypters = [c \in Crypters |-> AesGcmCrypter_new(KeyOf(c), IvOf(c))]
    /\ pc = [t \in Threads |-> "idle"]
    /\ req = [t \in Threads |-> NoReq]
    /\ res = [t \in Threads |-> NoRes]
    /\ last = NoCall

\* ------------------------------------------------------ crypter actions
CallEncrypt(t) ==
    /\ pc[t] = "idle"
    /\ \E c \in Crypters, pt \in Plaintexts :
          req' = [req EXCEPT ![t] = [op |-> "encrypt", crypter |-> c, pt |-> pt, tag |-> "none"]]
    /\ pc' = [pc EXCEPT ![t] = "called"]
    /\ UNCHANGED <<crypters, res, last>>

CallDecrypt(t) ==
    /\ pc[t] = "idle"
    /\ \E c \in Crypters, pt \in Plaintexts, k \in TagKinds :
          req' = [req EXCEPT ![t] = [op |-> "decrypt", crypter |-> c, pt |-> pt, tag |-> k]]
    /\ pc' = [pc EXCEPT ![t] = "called"]
    /\ UNCHANGED <<crypters, res, last>>

Run(self, r) ==
    IF r.op = "encrypt" THEN encrypt(self, r.pt)
    ELSE LET produced == encrypt(self, r.pt).value
         IN decrypt(self, produced.ciphertext, TagArg(produced.tag, r.tag))

\* faulty variant: a call advances the nonce of the crypter it ran on
ReturnAdvancingIv(t) ==
    /\ pc[t] = "called"
    /\ res' = [res EXCEPT ![t] = Run(crypters[req[t].crypter], req[t])]
    /\ pc' = [pc EXCEPT ![t] = "done"]
    /\ crypters' = [crypters EXCEPT ![req[t].crypter].iv.iv[GCM_IV_12] = (@ + 1) % 256]
    /\ UNCHANGED <<req, last>>

\* encrypt and decrypt take &self: the call reads key and iv, writes neither
Return(t) ==
    /\ pc[t] = "called"
    /\ res' = [res EXCEPT ![t] = Run(crypters[req[t].crypter], req[t])]
    /\ pc' = [pc EXCEPT ![t] = "done"]
    /\ UNCHANGED <<crypters, req, last>>

Finish(t) ==
    /\ pc[t] = "done"
    /\ pc' = [pc EXCEPT ![t] = "idle"]
    /\ req' = [req EXCEPT ![t] = NoReq]
    /\ res' = [res EXCEPT ![t] = NoRes]
    /\ UNCHANGED <<crypters, last>>

Next == \E t \in Threads : CallEncrypt(t) \/ CallDecrypt(t) \/ Return(t) \/ Finish(t)

Spec == Init /\ [][Next]_vars

\* ------------------------------------------- registry, Iv and tag calls
Record(fn, arg, out) == [fn |-> fn, arg |-> arg, out |-> out]

CallDecode ==
    /\ \E c \in Codes : last' = Record("decode", c, Ok(encryption_method_to_db_encryption_method(c)))
    /\ UNCHANGED cvars

CallCompat ==
    /\ \E m \in Methods : last' = Record("compat", m, Ok(compat(m)))
    /\ UNCHANGED cvars

CallDecodeOfEncode ==
    /\ \E m \in Methods : last' = Record("decode.encode", m, Ok(encryption_method_to_db_encryption_method(compat(m))))
    /\ UNCHANGED cvars

CallEncodeOfDecode ==
    /\ \E c \in 0..4 : last' = Record("encode.decode", c, Ok(compat(encryption_method_to_db_encryption_method(c))))
    /\ UNCHANGED cvars

CallKeyLength ==
    /\ \E m \in Methods : last' = Record("get_method_key_length", m, get_method_key_length(m))
    /\ UNCHANGED cvars

CallIvFrom ==
    /\ \E s \in SrcInputs : last' = Record("Iv::from", s, Iv_from(s))
    /\ UNCHANGED cvars

CallIvNew ==
    /\ \E n \in Iv_new : last' = Record("Iv::new", <<>>, Ok(n))
    /\ UNCHANGED cvars

CallTagFrom ==
    /\ \E s \in SrcInputs : last' = Record("AesGcmTag::from", s, AesGcmTag_from(s))
    /\ UNCHANGED cvars

CallIvReparse ==
    /\ \E n \in ValidIvs : last' = Record("Iv::from.as_slice", n, Iv_from(Iv_as_slice(n)))
    /\ UNCHANGED cvars

CallTagReparse ==
    /\ \E g \in ValidTags : last' = Record("AesGcmTag::from.as_slice", g, AesGcmTag_from(AesGcmTag_as_slice(g)))
    /\ UNCHANGED cvars

NextPure ==
    \/ CallDecode
    \/ CallCompat
    \/ CallDecodeOfEncode
    \/ CallEncodeOfDecode
    \/ CallKeyLength
    \/ CallIvFrom
    \/ CallIvNew
    \/ CallTagFrom
    \/ CallIvReparse
    \/ CallTagReparse

SpecPure == Init /\ [][NextPure]_vars

\* ---------------------------------------------------------- properties
Built(c) == AesGcmCrypter_new(KeyOf(c), IvOf(c))
Self(t) == crypters[req[t].crypter]
Finished(t, op) == pc[t] = "done" /\ req[t].op = op

\* C1: round trip.  A decrypt call given the ciphertext and the tag that
\* encrypt produced for pt on a crypter with a 32-byte key and the same
\* nonce returns Ok with exactly pt.
RoundTrip ==
    \A t \in Threads :
        (/\ Finished(t, "decrypt")
         /\ req[t].tag = "same"
         /\ Len(Self(t).key) = KEY_LEN
         /\ encrypt(Self(t), req[t].pt).kind = "ok")
        => (res[t].kind = "ok" /\ res[t].value = req[t].pt)

RoundTripWitness ==
    \E t \in Threads :
        /\ Finished(t, "decrypt")
        /\ req[t].tag = "same"
        /\ req[t].pt # <<>>
        /\ encrypt(Self(t), req[t].pt).value.ciphertext # req[t].pt
        /\ res[t].kind = "ok"
        /\ res[t].value = req[t].pt

\* C2: tamper detection.  A decrypt call given a ciphertext that encrypt
\* produced, with any tag other than the one encrypt produced, returns the
\* tag-verification error and carries no plaintext.
TamperDetected ==
    \A t \in Threads :
        (/\ Finished(t, "decrypt")
         /\ LET produced == encrypt(Self(t), req[t].pt).value.tag
            IN TagArg(produced, req[t].tag) # produced)
        => (/\ res[t].kind = "err"
            /\ res[t].error = "tag mismatch"
            /\ "value" \notin DOMAIN res[t])

TamperDetectedWitness ==
    \E t \in Threads :
        /\ Finished(t, "decrypt")
        /\ req[t].tag = "zero"
        /\ req[t].pt # <<>>
        /\ encrypt(Self(t), req[t].pt).value.tag # Zeros(GCM_TAG_LEN)
        /\ res[t].kind = "err"

\* C10: statelessness.  Every crypter keeps the key and nonce it was built
\* with, each finished call has the result the same call gives on the
\* freshly built crypter, and equal calls finished by different threads
\* have equal results.
Stateless ==
    /\ \A c \in Crypters : crypters[c] = Built(c)
    /\ \A t \in Threads :
          pc[t] = "done" =>
              LET alone == Run(Built(req[t].crypter), req[t])
              IN /\ res[t].kind = alone.kind
                 /\ res[t] = alone
    /\ \A t, u \in Threads :
          (pc[t] = "done" /\ pc[u] = "done" /\ req[t] = req[u]) => res[t] = res[u]

StatelessWitness ==
    \E t, u \in Threads :
        /\ t # u
        /\ req[t].crypter = req[u].crypter
        /\ Finished(t, "decrypt") /\ res[t].kind = "err"
        /\ Finished(u, "decrypt") /\ res[u].kind = "ok" /\ req[u].pt # <<>>

\* C3: codec inverse law.  decode(encode(m)) = m for every method,
\* encode(decode(c)) = c for every code 0..4, with Unknown=0, Plaintext=1,
\* Aes128Ctr=2, Aes192Ctr=3, Aes256Ctr=4.
WireCode ==
    [m \in Methods |->
        CASE m = "Unknown" -> 0
          [] m = "Plaintext" -> 1
          [] m = "Aes128Ctr" -> 2
          [] m = "Aes192Ctr" -> 3
          [] m = "Aes256Ctr" -> 4]

CodecInverse ==
    /\ last.fn = "decode.encode" => last.out.value = last.arg
    /\ last.fn = "encode.decode" => last.out.value = last.arg
    /\ last.fn = "compat" => last.out.value = WireCode[last.arg]
    /\ (last.fn = "decode" /\ last.arg \in 0..4) => WireCode[last.out.value] = last.arg

CodecInverseWitness ==
    /\ last.fn = "decode.encode"
    /\ last.arg = "Aes192Ctr"
    /\ last.out.value = "Aes192Ctr"

\* C4: decode is total.  Every wire code yields a method, and every code
\* outside 1..4 (negative, zero, above 4) yields Unknown.
DecodeTotal ==
    last.fn = "decode" =>
        /\ last.out.kind = "ok"
        /\ last.out.value \in Methods
        /\ last.arg \notin 1..4 => last.out.value = "Unknown"

DecodeTotalWitness ==
    /\ last.fn = "decode"
    /\ last.arg = I32Min
    /\ last.out.value = "Unknown"

\* C5: key lengths.  get_method_key_length returns 0, 16, 24 and 32 for
\* Plaintext, Aes128Ctr, Aes192Ctr and Aes256Ctr, and the Aes256Ctr
\* length is AesGcmCrypter::KEY_LEN.
KeyLengths ==
    (last.fn = "get_method_key_length" /\ last.arg # "Unknown") =>
        /\ last.out.kind = "ok"
        /\ last.arg = "Plaintext" => last.out.value = 0
        /\ last.arg = "Aes128Ctr" => last.out.value = 16
        /\ last.arg = "Aes192Ctr" => last.out.value = 24
        /\ last.arg = "Aes256Ctr" => (last.out.value = 32 /\ last.out.value = KEY_LEN)

KeyLengthsWitness ==
    /\ last.fn = "get_method_key_length"
    /\ last.arg = "Aes256Ctr"
    /\ last.out.kind = "ok"
    /\ last.out.value = KEY_LEN

\* C6 as stated: the key-length lookup of Unknown returns an error value
\* to its caller.
UnknownKeyLengthIsError ==
    (last.fn = "get_method_key_length" /\ last.arg = "Unknown") => last.out.kind = "err"

\* C6 amended: the key-length lookup of Unknown panics with the message
\* "bad EncryptionMethod Unknown"; it returns neither a length nor an
\* error value.
UnknownKeyLengthPanics ==
    (last.fn = "get_method_key_length" /\ last.arg = "Unknown") =>
        /\ last.out.kind = "panic"
        /\ last.out.msg = BadMethodMsg("Unknown")
        /\ "value" \notin DOMAIN last.out

UnknownKeyLengthWitness ==
    /\ last.fn = "get_method_key_length"
    /\ last.arg = "Unknown"
    /\ last.out.kind = "panic"

\* C7 as stated: Iv::from succeeds on every slice of at least 12 bytes and
\* keeps its first 12 bytes; AesGcmTag::from succeeds on every slice of at
\* least 16 bytes and keeps its first 16 bytes.
ParseAcceptsOverlong ==
    /\ (last.fn = "Iv::from" /\ Len(last.arg) >= GCM_IV_12) =>
          /\ last.out.kind = "ok"
          /\ last.out.value.iv = SubSeq(last.arg, 1, GCM_IV_12)
    /\ (last.fn = "AesGcmTag::from" /\ Len(last.arg) >= GCM_TAG_LEN) =>
          /\ last.out.kind = "ok"
          /\ last.out.value = SubSeq(last.arg, 1, GCM_TAG_LEN)

\* C8 as stated: Iv::from of fewer than 12 bytes and AesGcmTag::from of
\* fewer than 16 bytes return an error value to the caller.
ShortParseIsError ==
    /\ (last.fn = "Iv::from" /\ Len(last.arg) < GCM_IV_12) => last.out.kind = "err"
    /\ (last.fn = "AesGcmTag::from" /\ Len(last.arg) < GCM_TAG_LEN) => last.out.kind = "err"

\* C8 amended: Iv::from of fewer than 12 bytes and AesGcmTag::from of
\* fewer than 16 bytes panic on their length assertion; no Iv or tag is
\* built and no error value is returned.
ShortParsePanics ==
    /\ (last.fn = "Iv::from" /\ Len(last.arg) < GCM_IV_12) =>
          /\ last.out.kind = "panic"
          /\ last.out.msg = IvAssertMsg
          /\ "value" \notin DOMAIN last.out
    /\ (last.fn = "AesGcmTag::from" /\ Len(last.arg) < GCM_TAG_LEN) =>
          /\ last.out.kind = "panic"
          /\ last.out.msg = TagAssertMsg
          /\ "value" \notin DOMAIN last.out

ShortParseWitness ==
    /\ last.fn = "Iv::from"
    /\ Len(last.arg) = GCM_IV_12 - 1
    /\ last.out.kind = "panic"

\* C9: parse round trip.  Iv::from(n.as_slice()) succeeds with the bytes of
\* n for every Iv n that Iv::new or Iv::from built, and
\* AesGcmTag::from(t.as_slice()) succeeds with the bytes of t for every tag.
ParseRoundTrip ==
    /\ last.fn = "Iv::from.as_slice" =>
          /\ last.out.kind = "ok"
          /\ Len(Iv_as_slice(last.out.value)) = GCM_IV_12
          /\ Iv_as_slice(last.out.value) = Iv_as_slice(last.arg)
    /\ last.fn = "AesGcmTag::from.as_slice" =>
          /\ last.out.kind = "ok"
          /\ Len(AesGcmTag_as_slice(last.out.value)) = GCM_TAG_LEN
          /\ AesGcmTag_as_slice(last.out.value) = AesGcmTag_as_slice(last.arg)

ParseRoundTripWitness ==
    /\ last.fn = "Iv::from.as_slice"
    /\ Iv_as_slice(last.arg) # Zeros(GCM_IV_12)
    /\ last.out.kind = "ok"
    /\ Iv_as_slice(last.out.value) = Iv_as_slice(last.arg)

====
